---- MODULE Spec2Model ----
(***************************************************************************)
(* Whisper Voice: the hotkey listener, the toggle threads it spawns, the   *)
(* Recorder and the transcription threads of src/main.py, src/recorder.py, *)
(* src/transcriber.py and src/clipboard.py, as one state machine.          *)
(*                                                                         *)
(* Every chord match starts a new thread running toggle_recording; every   *)
(* stop with audio starts a new thread running transcribe_audio.  Threads  *)
(* share the Recorder, the menu-bar icon/status and the clipboard without  *)
(* any lock, so each statement that reads or writes shared state is a      *)
(* step of its own and the steps of different threads interleave freely.   *)
(***************************************************************************)
EXTENDS Integers, Sequences, FiniteSets, TLC

\* ---------------------------------------------------------------- bounds
\* Number of toggle threads (chord matches) of one run.
MaxToggles == 3
\* Number of audio blocks the frames list holds at most.
MaxBlocks == 2
\* Number of toggle and transcription threads alive at the same time.
MaxLive == 2

\* ------------------------------------------------------ program constants
\* main.py:190  text[:50] + "..." if len(text) > 50 else text
PreviewLen == 50

Threads == 1..MaxToggles

\* Keys the listener sees: the two chord members and any other key.
Keys == {"alt", "space", "other"}
Chord == {"alt", "space"}
\* Keys whose held state produces repeated press events (modifier keys are
\* reported on change only).
Repeating == {"space", "other"}

\* Transcripts the remote endpoint may return: a short one and one longer
\* than the notification preview.
ShortText == <<"h", "i">>
LongText == [n \in 1..(PreviewLen + 1) |-> "x"]
Texts == {ShortText, LongText}
Ellipsis == <<".", ".", ".">>

\* str(e) of the exceptions transcribe() and paste_text() let escape.
AuthMsg == <<"a", "p", "i", "_", "k", "e", "y">>
NetworkMsg == <<"C", "o", "n", "n">>
PasteMsg == <<"p", "b", "c", "o", "p", "y">>
NoText == <<>>

VARIABLES
    held,                \* keys physically down (the environment)
    pressed_keys,        \* WhisperApp.pressed_keys
    nthreads,            \* toggle threads started so far
    pc,                  \* position of each toggle thread
    tpc,                 \* position of the transcription thread of each stop
    recording,           \* Recorder.recording
    frames,              \* Recorder.frames: blocks, each tagged with its stream
    stream,              \* Recorder.stream: 0 while the attribute is unset
    streamState,         \* every InputStream ever created
    files,               \* temporary WAV files that exist
    artifact,            \* the frames each Recorder.stop found (recorder.py:49)
    apiKey,              \* OPENAI_API_KEY is set
    audio_path,          \* stop_recording's local audio_path of each thread
    text,                \* transcribe_audio's local text of each thread
    error,               \* str(e) of the exception each thread caught
    icon,                \* menu-bar icon state
    status,              \* status menu item text
    notif,               \* status event emitted by each toggle thread
    tnotif,              \* status event emitted by each transcription thread
    clipboard,           \* system clipboard
    pasteArgs,           \* arguments of the paste_text calls of each thread
    typed,               \* what each thread's Cmd+V put into the focused app
    transcription_count  \* WhisperApp.transcription_count

vars == <<held, pressed_keys, nthreads, pc, tpc, recording, frames, stream,
          streamState, files, artifact, apiKey, audio_path, text, error, icon,
          status, notif, tnotif, clipboard, pasteArgs, typed,
          transcription_count>>

hotkeyVars == <<held, pressed_keys>>
recorderVars == <<recording, frames, stream, streamState>>
fileVars == <<files, artifact, audio_path>>
uiVars == <<icon, status>>
pasteVars == <<clipboard, pasteArgs, typed>>
transVars == <<tpc, text, error, tnotif, transcription_count>>

\* A status event: the icon and status text a thread set and the notification
\* it posted.  NoEvent: the thread has emitted nothing yet.
NoEvent == [icon |-> "", status |-> "", subtitle |-> "", message |-> ""]

Init ==
    /\ held = {}
    /\ pressed_keys = {}
    /\ nthreads = 0
    /\ pc = [i \in Threads |-> "none"]
    /\ tpc = [i \in Threads |-> "none"]
    /\ recording = FALSE
    /\ frames = <<>>
    /\ stream = 0
    /\ streamState = [i \in Threads |-> "none"]
    /\ files = {}
    /\ artifact = [i \in Threads |-> <<>>]
    /\ apiKey \in BOOLEAN
    /\ audio_path = [i \in Threads |-> "unset"]
    /\ text = [i \in Threads |-> NoText]
    /\ error = [i \in Threads |-> NoText]
    /\ icon = "idle"
    /\ status = "Idle"
    /\ notif = [i \in Threads |-> NoEvent]
    /\ tnotif = [i \in Threads |-> NoEvent]
    /\ clipboard = NoText
    /\ pasteArgs = [i \in Threads |-> <<>>]
    /\ typed = [i \in Threads |-> <<>>]
    /\ transcription_count = 0

\* Threads that have been started and have not finished.
LiveToggles == {i \in Threads : pc[i] \notin {"none", "done", "crashed"}}
LiveTranscriptions == {i \in Threads : tpc[i] \notin {"none", "done", "failed"}}
Live == Cardinality(LiveToggles) + Cardinality(LiveTranscriptions)

\* ------------------------------------------------------------ HotkeyWatcher

\* main.py:113  Key.alt in pressed_keys and Key.space in pressed_keys
ChordMatched(ks) == "alt" \in ks /\ "space" \in ks

\* The body of on_press, main.py:110-116, on the key set `keys`: add the
\* key; on a chord match clear the set and fire.
on_press(k, keys) ==
    LET ks == keys \cup {k} IN
    IF ChordMatched(ks)
    THEN [fire |-> TRUE, keys |-> {}]
    ELSE [fire |-> FALSE, keys |-> ks]

\* main.py:116  threading.Thread(target=self.toggle_recording).start()
StartToggleThread ==
    /\ nthreads < MaxToggles
    /\ Live < MaxLive
    /\ nthreads' = nthreads + 1
    /\ pc' = [pc EXCEPT ![nthreads + 1] = "toggle"]

\* OnPress with the toggle run inside the handler: it returns only when no
\* toggle handler and no transcription is running.
OnPressInline(k) ==
    /\ Live = 0
    /\ k \notin held \/ k \in Repeating
    /\ held' = held \cup {k}
    /\ pressed_keys' = on_press(k, pressed_keys).keys
    /\ IF on_press(k, pressed_keys).fire
       THEN StartToggleThread
       ELSE UNCHANGED <<nthreads, pc>>
    /\ UNCHANGED <<recorderVars, fileVars, apiKey, uiVars, notif, pasteVars,
                   transVars>>

\* on_press, under hotkey_lock.  A press event is delivered for a key going
\* down and, for a repeating key, again while it stays down.
OnPress(k) ==
    /\ k \notin held \/ k \in Repeating
    /\ held' = held \cup {k}
    /\ pressed_keys' = on_press(k, pressed_keys).keys
    /\ IF on_press(k, pressed_keys).fire
       THEN StartToggleThread
       ELSE UNCHANGED <<nthreads, pc>>
    /\ UNCHANGED <<recorderVars, fileVars, apiKey, uiVars, notif, pasteVars,
                   transVars>>

\* on_release, under hotkey_lock: discard the key.
OnRelease(k) ==
    /\ k \in held
    /\ held' = held \ {k}
    /\ pressed_keys' = pressed_keys \ {k}
    /\ UNCHANGED <<nthreads, pc, recorderVars, fileVars, apiKey, uiVars, notif,
                   pasteVars, transVars>>

\* ------------------------------------------------- WhisperApp toggle threads

\* Recorder.is_recording
is_recording == recording

\* toggle_recording: branch on recorder.is_recording().
ToggleRecording(i) ==
    /\ pc[i] = "toggle"
    /\ pc' = [pc EXCEPT ![i] = IF is_recording THEN "stop_ui" ELSE "start_ui"]
    /\ UNCHANGED <<hotkeyVars, nthreads, recorderVars, fileVars, apiKey, uiVars,
                   notif, pasteVars, transVars>>

\* start_recording, main.py:136-137: set_icon("recording"), update_status.
StartUI(i) ==
    /\ pc[i] = "start_ui"
    /\ icon' = "recording"
    /\ status' = "Recording..."
    /\ notif' = [notif EXCEPT ![i].icon = "recording",
                              ![i].status = "Recording..."]
    /\ pc' = [pc EXCEPT ![i] = "start_frames"]
    /\ UNCHANGED <<hotkeyVars, nthreads, recorderVars, fileVars, apiKey,
                   pasteVars, transVars>>

\* Recorder.start, recorder.py:23  self.frames = []
StartFrames(i) ==
    /\ pc[i] = "start_frames"
    /\ frames' = <<>>
    /\ pc' = [pc EXCEPT ![i] = "start_flag"]
    /\ UNCHANGED <<hotkeyVars, nthreads, recording, stream, streamState,
                   fileVars, apiKey, uiVars, notif, pasteVars, transVars>>

\* Recorder.start, recorder.py:24  self.recording = True
StartFlag(i) ==
    /\ pc[i] = "start_flag"
    /\ recording' = TRUE
    /\ pc' = [pc EXCEPT ![i] = "start_open"]
    /\ UNCHANGED <<hotkeyVars, nthreads, frames, stream, streamState, fileVars,
                   apiKey, uiVars, notif, pasteVars, transVars>>

\* Recorder.start, recorder.py:25-30  self.stream = sd.InputStream(...).
\* The constructor opens the device; when it raises (no input device, device
\* busy) nothing is assigned and the exception ends the toggle thread.
StartOpen(i) ==
    /\ pc[i] = "start_open"
    /\ \E opened \in BOOLEAN :
         IF opened
         THEN /\ stream' = i
              /\ streamState' = [streamState EXCEPT ![i] = "open"]
              /\ pc' = [pc EXCEPT ![i] = "start_stream"]
         ELSE /\ pc' = [pc EXCEPT ![i] = "crashed"]
              /\ UNCHANGED <<stream, streamState>>
    /\ UNCHANGED <<hotkeyVars, nthreads, recording, frames, fileVars, apiKey,
                   uiVars, notif, pasteVars, transVars>>

\* Recorder.start, recorder.py:31  self.stream.start(), then main.py:139-144
\* the "Recording..." notification.  start() on a stream another thread has
\* closed in the meantime raises and ends the thread.
StartStream(i) ==
    /\ pc[i] = "start_stream"
    /\ IF streamState[stream] \in {"open", "stopped", "active"}
       THEN /\ streamState' = [streamState EXCEPT ![stream] = "active"]
            /\ notif' = [notif EXCEPT ![i].subtitle = "Recording...",
                                      ![i].message = "Option+Space to stop"]
            /\ pc' = [pc EXCEPT ![i] = "done"]
       ELSE /\ pc' = [pc EXCEPT ![i] = "crashed"]
            /\ UNCHANGED <<streamState, notif>>
    /\ UNCHANGED <<hotkeyVars, nthreads, recording, frames, stream, fileVars,
                   apiKey, uiVars, pasteVars, transVars>>

\* Recorder._callback, on the audio thread of an active stream:
\* if self.recording: self.frames.append(indata.copy())
Callback(s) ==
    /\ streamState[s] = "active"
    /\ recording
    /\ Len(frames) < MaxBlocks
    /\ frames' = Append(frames, s)
    /\ UNCHANGED <<hotkeyVars, nthreads, pc, recording, stream, streamState,
                   fileVars, apiKey, uiVars, notif, pasteVars, transVars>>

\* stop_recording, main.py:149-150: set_icon("transcribing"), update_status.
StopUI(i) ==
    /\ pc[i] = "stop_ui"
    /\ icon' = "transcribing"
    /\ status' = "Transcribing..."
    /\ notif' = [notif EXCEPT ![i].icon = "transcribing",
                              ![i].status = "Transcribing..."]
    /\ pc' = [pc EXCEPT ![i] = "stop_flag"]
    /\ UNCHANGED <<hotkeyVars, nthreads, recorderVars, fileVars, apiKey,
                   pasteVars, transVars>>

\* Recorder.stop, recorder.py:41  self.recording = False
StopFlag(i) ==
    /\ pc[i] = "stop_flag"
    /\ recording' = FALSE
    /\ pc' = [pc EXCEPT ![i] = "stop_stream"]
    /\ UNCHANGED <<hotkeyVars, nthreads, frames, stream, streamState, fileVars,
                   apiKey, uiVars, notif, pasteVars, transVars>>

\* Recorder.stop, recorder.py:44  self.stream.stop().  Reading the attribute
\* before any start() has assigned it raises AttributeError and ends the
\* thread; stopping a stream that is already closed is ignored by the
\* library (ignore_errors defaults to True).
StopStream(i) ==
    /\ pc[i] = "stop_stream"
    /\ IF stream = 0
       THEN /\ pc' = [pc EXCEPT ![i] = "crashed"]
            /\ UNCHANGED streamState
       ELSE /\ streamState' = [streamState EXCEPT ![stream] =
                                 IF @ \in {"open", "active"} THEN "stopped" ELSE @]
            /\ pc' = [pc EXCEPT ![i] = "stop_close"]
    /\ UNCHANGED <<hotkeyVars, nthreads, recording, frames, stream, fileVars,
                   apiKey, uiVars, notif, pasteVars, transVars>>

\* Recorder.stop, recorder.py:47  self.stream.close()
StopClose(i) ==
    /\ pc[i] = "stop_close"
    /\ streamState' = [streamState EXCEPT ![stream] = "closed"]
    /\ pc' = [pc EXCEPT ![i] = "stop_final"]
    /\ UNCHANGED <<hotkeyVars, nthreads, recording, frames, stream, fileVars,
                   apiKey, uiVars, notif, pasteVars, transVars>>

\* HasAudio without the emptiness test: every stop yields a file.
HasAudioAlways(fr) == TRUE

\* recorder.py:50  if not self.frames: return None
HasAudio(fr) == fr # <<>>

\* main.py:159-166: the status event of a stop that got no audio.
NoAudioEvent ==
    [icon |-> "idle", status |-> "Idle", subtitle |-> "Error",
     message |-> "No audio recorded"]

\* Recorder.stop, recorder.py:49-64, and the rest of stop_recording,
\* main.py:152-166.  No frames: stop() returns None and stop_recording
\* resets the icon and status and posts the "No audio recorded"
\* notification.  Otherwise the frames are written to a new temporary WAV
\* file and a thread running transcribe_audio(audio_path) is started.
StopFinal(i) ==
    /\ pc[i] = "stop_final"
    /\ artifact' = [artifact EXCEPT ![i] = frames]
    /\ IF HasAudio(frames)
       THEN /\ audio_path' = [audio_path EXCEPT ![i] = "file"]
            /\ files' = files \cup {i}
            /\ tpc' = [tpc EXCEPT ![i] = "transcribing"]
            /\ UNCHANGED <<icon, status, notif>>
       ELSE /\ audio_path' = [audio_path EXCEPT ![i] = "None"]
            /\ icon' = NoAudioEvent.icon
            /\ status' = NoAudioEvent.status
            /\ notif' = [notif EXCEPT ![i] = NoAudioEvent]
            /\ UNCHANGED <<files, tpc>>
    /\ pc' = [pc EXCEPT ![i] = "done"]
    /\ UNCHANGED <<hotkeyVars, nthreads, recorderVars, apiKey, pasteVars, text,
                   error, tnotif, transcription_count>>

\* ------------------------------------------------------ transcription threads

\* TranscribeOutcomes with a client that is built without a credential.
TranscribeOutcomesKeyless ==
    {[ok |-> FALSE, val |-> NetworkMsg]}
    \cup {[ok |-> TRUE, val |-> t] : t \in Texts}

\* The ways transcribe() ends, transcriber.py:26-48: the client constructor
\* raises without a credential (line 30); with one, the request raises
\* (line 36) or returns a transcript.
TranscribeOutcomes ==
    IF ~apiKey
    THEN {[ok |-> FALSE, val |-> AuthMsg]}
    ELSE {[ok |-> FALSE, val |-> NetworkMsg]}
         \cup {[ok |-> TRUE, val |-> t] : t \in Texts}

\* transcriber.py:45  os.unlink(audio_path): the only place the file is
\* removed, reached when nothing before it raised.
FilesAfterTranscribe(fs, i, ok) == IF ok THEN fs \ {i} ELSE fs

\* text = transcribe(audio_path), main.py:173; an exception goes to the
\* except branch of transcribe_audio.
Transcribe(i) ==
    /\ tpc[i] = "transcribing"
    /\ \E r \in TranscribeOutcomes :
         /\ files' = FilesAfterTranscribe(files, i, r.ok)
         /\ IF r.ok
            THEN /\ text' = [text EXCEPT ![i] = r.val]
                 /\ tpc' = [tpc EXCEPT ![i] = "paste"]
                 /\ UNCHANGED error
            ELSE /\ error' = [error EXCEPT ![i] = r.val]
                 /\ tpc' = [tpc EXCEPT ![i] = "except"]
                 /\ UNCHANGED text
    /\ UNCHANGED <<hotkeyVars, nthreads, pc, recorderVars, artifact, audio_path,
                   apiKey, uiVars, notif, pasteVars, tnotif,
                   transcription_count>>

\* PasteArg passing the notification preview instead of the transcript.
PasteArgTruncated(i) ==
    IF Len(text[i]) > PreviewLen THEN SubSeq(text[i], 1, PreviewLen) ELSE text[i]

\* main.py:178  the argument transcribe_audio passes to paste_text
PasteArg(i) == text[i]

\* paste_text, clipboard.py:14-19: pbcopy puts the text on the clipboard.
\* A failure to run pbcopy raises into transcribe_audio's except branch.
PasteCopy(i) ==
    /\ tpc[i] = "paste"
    /\ pasteArgs' = [pasteArgs EXCEPT ![i] = Append(@, PasteArg(i))]
    /\ \/ /\ clipboard' = PasteArg(i)
          /\ tpc' = [tpc EXCEPT ![i] = "keystroke"]
          /\ UNCHANGED error
       \/ /\ error' = [error EXCEPT ![i] = PasteMsg]
          /\ tpc' = [tpc EXCEPT ![i] = "except"]
          /\ UNCHANGED clipboard
    /\ UNCHANGED <<hotkeyVars, nthreads, pc, recorderVars, fileVars, apiKey,
                   uiVars, notif, typed, text, tnotif, transcription_count>>

\* paste_text, clipboard.py:22-29: after the settling delay, Cmd+V pastes
\* whatever the clipboard holds at that moment into the focused application.
PasteKeystroke(i) ==
    /\ tpc[i] = "keystroke"
    /\ typed' = [typed EXCEPT ![i] = Append(@, clipboard)]
    /\ tpc' = [tpc EXCEPT ![i] = "complete"]
    /\ UNCHANGED <<hotkeyVars, nthreads, pc, recorderVars, fileVars, apiKey,
                   uiVars, notif, clipboard, pasteArgs, text, error, tnotif,
                   transcription_count>>

\* main.py:190  text[:50] + "..." if len(text) > 50 else text
Preview(t) ==
    IF Len(t) > PreviewLen
    THEN SubSeq(t, 1, PreviewLen) \o Ellipsis
    ELSE t

\* main.py:185-191: the status event of a finished transcription.
CompleteEvent(i) ==
    [icon |-> "idle", status |-> "Idle",
     subtitle |-> "Transcription complete", message |-> Preview(text[i])]

\* transcribe_audio, main.py:182-191: count the transcription, reset the icon
\* and status, post the "Transcription complete" notification.
Complete(i) ==
    /\ tpc[i] = "complete"
    /\ transcription_count' = transcription_count + 1
    /\ icon' = CompleteEvent(i).icon
    /\ status' = CompleteEvent(i).status
    /\ tnotif' = [tnotif EXCEPT ![i] = CompleteEvent(i)]
    /\ tpc' = [tpc EXCEPT ![i] = "done"]
    /\ UNCHANGED <<hotkeyVars, nthreads, pc, recorderVars, fileVars, apiKey,
                   notif, pasteVars, text, error>>

\* ErrorEvent reporting the transcript variable instead of the exception.
ErrorEventOfText(i) ==
    [icon |-> "idle", status |-> "Error", subtitle |-> "Error",
     message |-> text[i]]

\* main.py:193-200: the status event of the except branch.
ErrorEvent(i) ==
    [icon |-> "idle", status |-> "Error", subtitle |-> "Error",
     message |-> error[i]]

\* transcribe_audio, main.py:192-200: the except branch.
Except(i) ==
    /\ tpc[i] = "except"
    /\ icon' = ErrorEvent(i).icon
    /\ status' = ErrorEvent(i).status
    /\ tnotif' = [tnotif EXCEPT ![i] = ErrorEvent(i)]
    /\ tpc' = [tpc EXCEPT ![i] = "failed"]
    /\ UNCHANGED <<hotkeyVars, nthreads, pc, recorderVars, fileVars, apiKey,
                   notif, pasteVars, text, error, transcription_count>>

\* ------------------------------------------------------------ specification

\* The steps of the toggle, audio and transcription threads.
ThreadStep ==
    \/ \E i \in Threads : ToggleRecording(i)
    \/ \E i \in Threads : StartUI(i)
    \/ \E i \in Threads : StartFrames(i)
    \/ \E i \in Threads : StartFlag(i)
    \/ \E i \in Threads : StartOpen(i)
    \/ \E i \in Threads : StartStream(i)
    \/ \E s \in Threads : Callback(s)
    \/ \E i \in Threads : StopUI(i)
    \/ \E i \in Threads : StopFlag(i)
    \/ \E i \in Threads : StopStream(i)
    \/ \E i \in Threads : StopClose(i)
    \/ \E i \in Threads : StopFinal(i)
    \/ \E i \in Threads : Transcribe(i)
    \/ \E i \in Threads : PasteCopy(i)
    \/ \E i \in Threads : PasteKeystroke(i)
    \/ \E i \in Threads : Complete(i)
    \/ \E i \in Threads : Except(i)

Next ==
    \/ \E k \in Keys : OnPress(k)
    \/ \E k \in Keys : OnRelease(k)
    \/ ThreadStep

Spec == Init /\ [][Next]_vars

\* One whole press-hold-release cycle of the chord with the keyboard at rest
\* before and after it: the other member goes down, k goes down, on_press
\* runs for each, and on_release runs for both.  No thread reads the key
\* state, so the threads behave under ChordCycle as under OnPress/OnRelease.
ChordCycle(k) ==
    /\ held = {}
    /\ LET first == on_press(CHOOSE m \in Chord : m # k, pressed_keys)
           second == on_press(k, first.keys) IN
         /\ ~first.fire
         /\ second.fire
         /\ pressed_keys' = second.keys \ Chord
    /\ StartToggleThread
    /\ UNCHANGED <<held, recorderVars, fileVars, apiKey, uiVars, notif,
                   pasteVars, transVars>>

\* The threads, with every toggle coming from a ChordCycle.
SessionNext ==
    \/ \E k \in Chord : ChordCycle(k)
    \/ ThreadStep

SpecSession == Init /\ [][SessionNext]_vars

\* ------------------------------------------------------------------- claims

\* The session mode the code keeps implicitly (main.py:128, 146-157, 168):
\* Recording while recorder.recording is set; Transcribing from the moment a
\* stop has cleared the flag until its transcribe_audio thread has finished;
\* Idle otherwise.
Stopping == {i \in Threads : pc[i] \in {"stop_stream", "stop_close", "stop_final"}}
Mode ==
    IF recording THEN "Recording"
    ELSE IF Stopping # {} \/ LiveTranscriptions # {} THEN "Transcribing"
    ELSE "Idle"

\* Everything a toggle handler can change besides its own position.
sessionVars == <<recorderVars, fileVars, uiVars, notif, pasteVars, transVars>>

\* C1: a toggle handled while a transcribe_audio call is in flight is
\* ignored: the handler ends without changing any session state, without
\* entering start_recording and without emitting a status change.
C1_ToggleIgnoredWhileTranscribing ==
    [][\A i \in Threads :
         (pc[i] = "toggle" /\ pc'[i] # "toggle" /\ LiveTranscriptions # {})
            => (pc'[i] = "done" /\ UNCHANGED sessionVars)]_vars

\* Capture streams that hold the device, and transcribe() calls in flight.
OpenStreams == {s \in Threads : streamState[s] \in {"open", "active", "stopped"}}
InFlight == {i \in Threads : tpc[i] = "transcribing"}

\* C2: in every reachable state at most one capture stream is open and at
\* most one transcribe() call is in flight.
C2_AtMostOneSession ==
    /\ Cardinality(OpenStreams) <= 1
    /\ Cardinality(InFlight) <= 1

\* C3: Recorder.start is entered only in mode Idle and Recorder.stop only in
\* mode Recording, so two toggle handlers never both start or both stop the
\* same session.
C3_StartStopSerialized ==
    [][\A i \in Threads :
         /\ (pc[i] = "start_frames" /\ pc'[i] # "start_frames") => Mode = "Idle"
         /\ (pc[i] = "stop_flag" /\ pc'[i] # "stop_flag") => Mode = "Recording"]_vars

\* C4: the mode changes only along Idle -> Recording -> Transcribing -> Idle,
\* plus Recording -> Idle when no audio was captured.
ModeChanges ==
    {<<"Idle", "Recording">>, <<"Recording", "Transcribing">>,
     <<"Transcribing", "Idle">>, <<"Recording", "Idle">>}
C4_ModeCycle ==
    [][Mode' # Mode => <<Mode, Mode'>> \in ModeChanges]_vars

\* C5: once every handler has finished after a failure, the controller is
\* back in Idle: the recorder is not left recording without a live stream,
\* and the icon and status do not show recording or transcribing.
SessionFailed ==
    \E i \in Threads : pc[i] = "crashed" \/ tpc[i] = "failed"
C5_FailureReturnsToIdle ==
    (Live = 0 /\ SessionFailed) =>
        /\ ~recording
        /\ icon = "idle"
        /\ status \notin {"Recording...", "Transcribing..."}

\* transcribe() returned a transcript to thread i / raised in thread i.
Transcribed(i) == text[i] # NoText
TranscribeRaised(i) == tpc[i] \in {"except", "failed"} /\ text[i] = NoText

\* C6: a transcription that returned non-empty text calls paste_text exactly
\* once, with exactly that text, and emits its "Transcription complete"
\* event (icon and status back to idle) only after the paste keystroke; no
\* status event of the thread precedes its paste attempt.
C6_PasteOnceBeforeComplete ==
    \A i \in Threads :
        /\ Len(pasteArgs[i]) <= 1
        /\ ~Transcribed(i) => pasteArgs[i] = <<>>
        /\ tpc[i] \in {"keystroke", "complete", "done"} =>
              /\ Transcribed(i)
              /\ pasteArgs[i] = <<text[i]>>
        /\ (Transcribed(i) /\ tnotif[i] # NoEvent) => Len(pasteArgs[i]) = 1
        /\ (tpc[i] = "done" \/ tnotif[i].subtitle = "Transcription complete") =>
              /\ tpc[i] = "done"
              /\ pasteArgs[i] = <<text[i]>>
              /\ Len(typed[i]) = 1
              /\ tnotif[i].subtitle = "Transcription complete"
              /\ tnotif[i].icon = "idle"
              /\ tnotif[i].status = "Idle"

\* C6 witness: a thread finished a transcription of the long transcript, having
\* pasted it once.
C6_Witness ==
    \E i \in Threads :
        /\ tpc[i] = "done"
        /\ text[i] = LongText
        /\ pasteArgs[i] = <<LongText>>
        /\ Len(typed[i]) = 1

\* C7: a transcription whose transcribe() call raised never calls paste_text
\* and ends with an event that resets the icon to idle, sets the status to
\* "Error" and posts an "Error" notification with a non-empty message.
C7_FailedTranscriptionNoPaste ==
    \A i \in Threads :
        TranscribeRaised(i) =>
            /\ pasteArgs[i] = <<>>
            /\ typed[i] = <<>>
            /\ error[i] # <<>>
            /\ tpc[i] = "failed" =>
                  /\ tnotif[i].icon = "idle"
                  /\ tnotif[i].status = "Error"
                  /\ tnotif[i].subtitle = "Error"
                  /\ tnotif[i].message = error[i]
                  /\ Len(tnotif[i].message) > 0

\* C7 witness: a request failed with a credential present and the thread has
\* run its except branch.
C7_Witness ==
    \E i \in Threads :
        /\ tpc[i] = "failed"
        /\ text[i] = NoText
        /\ error[i] = NetworkMsg

\* Recorder.stop of thread i found no frames.
StoppedEmpty(i) == audio_path[i] # "unset" /\ artifact[i] = <<>>

ChordDown == Chord \subseteq held

\* C9: the watcher emits exactly one toggle for every press-hold-release
\* cycle of the chord (a step that brings the chord down starts one toggle
\* thread) and none otherwise.
C9_OneTogglePerChordCycle ==
    [][IF ~ChordDown /\ ChordDown'
       THEN nthreads' = nthreads + 1
       ELSE nthreads' = nthreads]_vars

\* C10: once transcribe(audio_path) has completed, by returning or by
\* raising, the temporary file no longer exists.
C10_ArtifactDeletedAfterTranscribe ==
    \A i \in Threads :
        tpc[i] \notin {"none", "transcribing"} => i \notin files

\* The status event of a transcription that failed for want of a credential.
AuthErrorEvent ==
    [icon |-> "idle", status |-> "Error", subtitle |-> "Error",
     message |-> AuthMsg]

\* C11: without the API credential no transcription thread gets a transcript
\* or pastes; each one catches the authentication error, ends (it does not
\* die on the exception) and emits an event with the idle icon, the status
\* "Error" and the error text as message.  When the session was one start
\* toggle and one stop toggle, the recorder is then not recording, the mode
\* is Idle and the menu bar shows the idle icon and "Error".
C11_MissingCredentialReported ==
    ~apiKey =>
        /\ \A i \in Threads :
              /\ tpc[i] \in {"none", "transcribing", "except", "failed"}
              /\ text[i] = NoText
              /\ pasteArgs[i] = <<>>
              /\ tpc[i] \in {"except", "failed"} => error[i] = AuthMsg
              /\ tpc[i] = "failed" <=> tnotif[i] # NoEvent
              /\ tpc[i] = "failed" => tnotif[i] = AuthErrorEvent
        /\ transcription_count = 0
        /\ (nthreads = 2 /\ Live = 0 /\ tpc[2] = "failed") =>
              /\ ~recording
              /\ Mode = "Idle"
              /\ icon = "idle"
              /\ status = "Error"

\* C11 witness: a session failed for want of the credential and a toggle
\* handled afterwards has started a new recording.
C11_Witness ==
    /\ ~apiKey
    /\ \E i, j \in Threads :
          /\ i < j
          /\ tpc[i] = "failed"
          /\ tnotif[i] = AuthErrorEvent
          /\ pc[j] = "done"
          /\ stream = j
          /\ streamState[j] = "active"
          /\ recording
          /\ status = "Recording..."

\* A new toggle thread fits the bounds of the model.
Room == nthreads < MaxToggles /\ Live < MaxLive

\* The press and release events the keyboard can deliver in this state.
PressEvents == {k \in Keys : k \notin held \/ k \in Repeating}
ReleaseEvents == held

\* C12: while a transcribe() call is in flight or a toggle handler is
\* running, every key event the keyboard can deliver is handled at once:
\* on_press and on_release are enabled whatever the threads are doing (a
\* press that completes the chord starts its toggle thread and returns), and
\* so is a whole chord cycle from a keyboard at rest.
C12_ListenerNeverBlocked ==
    (InFlight # {} \/ LiveToggles # {}) =>
        /\ \A k \in ReleaseEvents : ENABLED OnRelease(k)
        /\ \A k \in PressEvents :
              (on_press(k, pressed_keys).fire => Room) => ENABLED OnPress(k)
        /\ (held = {} /\ Room) => \A k \in Chord : ENABLED ChordCycle(k)

\* C12 witness: with a transcribe() call in flight the listener has handled
\* a chord and started a toggle thread that has not run yet.
C12_Witness ==
    \E i, j \in Threads :
        /\ i < j
        /\ tpc[i] = "transcribing"
        /\ pc[j] = "toggle"

\* C13: Recorder.stop clears the flag before it stops and closes the stream,
\* and from the clearing of the flag until the artifact is built the frames
\* list does not change: no block is added and none is lost, so the artifact
\* is exactly the blocks delivered up to the clearing of the flag, in
\* arrival order.  stop returns None iff the list is empty.
C13_ArtifactIsBlocksUntilFlagCleared ==
    [][\A i \in Threads :
         /\ (pc[i] = "stop_flag" /\ pc'[i] # "stop_flag") =>
               /\ ~recording'
               /\ streamState' = streamState
         /\ i \in Stopping => frames' = frames
         /\ (pc[i] = "stop_final" /\ pc'[i] = "done") =>
               /\ artifact'[i] = frames
               /\ (audio_path'[i] = "None") <=> (frames = <<>>)]_vars

\* The streams whose blocks are in a sequence of frames.
StreamsOf(fr) == {fr[n] : n \in 1..Len(fr)}

\* C14: the artifact of a stop holds blocks of one capture stream only (the
\* buffer starts empty at each start, so no block of another session is in
\* it), and no two stops build their artifacts from the same buffer.
C14_BufferOneSessionOneArtifact ==
    /\ \A i \in Threads : Cardinality(StreamsOf(artifact[i])) <= 1
    /\ \A i, j \in Threads :
          i # j => StreamsOf(artifact[i]) \cap StreamsOf(artifact[j]) = {}

\* The transcription threads started for audio of capture stream s.
RequestsFor(s) == {i \in Threads : tpc[i] # "none" /\ s \in StreamsOf(artifact[i])}

\* C15: a stop with audio writes one file and starts one transcription of
\* it; no recording session gets more than one transcription request, and
\* the file is gone once its transcribe() call has ended.
C15_OneRequestPerSession ==
    /\ \A i \in Threads :
          /\ tpc[i] # "none" <=> audio_path[i] = "file"
          /\ tpc[i] # "none" => artifact[i] # <<>>
          /\ tpc[i] = "transcribing" => i \in files
          /\ tpc[i] \notin {"none", "transcribing"} => i \notin files
    /\ \A s \in Threads : Cardinality(RequestsFor(s)) <= 1

\* C16: a stop whose Recorder.stop finds no frames goes straight back to
\* idle: its handler has emitted no "transcribing" icon or status by the
\* time it learns that there is no audio, and it starts no transcription.
C16_EmptyStopSkipsTranscribing ==
    \A i \in Threads :
        /\ (pc[i] = "stop_final" /\ ~HasAudio(frames)) =>
              /\ notif[i].icon # "transcribing"
              /\ notif[i].status # "Transcribing..."
        /\ StoppedEmpty(i) => tpc[i] = "none"

\* C17: at most one input stream is open; every open stream is the one the
\* recorder's stream attribute refers to, so that the next stop closes it;
\* and when the recorder is not recording and no handler is running, no
\* stream is open.
C17_StreamHeldOnlyWhileRecording ==
    /\ Cardinality(OpenStreams) <= 1
    /\ \A s \in OpenStreams : stream = s
    /\ (~recording /\ LiveToggles = {}) => OpenStreams = {}

\* C18: the menu bar agrees with the recorder.  While the recorder is
\* recording the status is not "Idle", nor "Error" with the idle icon (so a
\* transcription that ends does not overwrite the status of a recording
\* started after it); and once every handler and transcription has ended
\* with the recorder not recording, the status is neither "Recording..." nor
\* "Transcribing...".
C18_StatusAgreesWithSession ==
    /\ recording =>
          /\ status # "Idle"
          /\ ~(status = "Error" /\ icon = "idle")
    /\ (~recording /\ Live = 0) =>
          status \notin {"Recording...", "Transcribing..."}

\* C19: what a thread's Cmd+V pastes into the focused application is the
\* text its own paste_text call put on the clipboard, which is the
\* transcript of its own session.
C19_PastesOwnTranscript ==
    \A i \in Threads :
        \A n \in 1..Len(typed[i]) :
            /\ n <= Len(pasteArgs[i])
            /\ typed[i][n] = pasteArgs[i][n]
            /\ typed[i][n] = text[i]

====
